---- MODULE Spec2Model ----
(***************************************************************************)
(* A model of the CSV profiling pipeline of src/lambda/processor.py:       *)
(* an object store (S3), a status table (DynamoDB), the handler that an    *)
(* object-created notification invokes, and the pure analysis it runs      *)
(* (csv.DictReader, schema inference, statistics, quality issues).         *)
(*                                                                         *)
(* Text is a sequence of one-character strings.  The alphabet is digits,   *)
(* the lower-case letters the pools use, and  + - . / _ , and the blank;   *)
(* there is no quote character, so csv quoting never comes into play.      *)
(* An object body is a sequence of lines (the text between line breaks).   *)
(***************************************************************************)
EXTENDS Integers, Sequences, FiniteSets, TLC

\* ------------------------------------------------------------------ text

Digit == {"0", "1", "2", "3", "4", "5", "6", "7", "8", "9"}

DigitVal(c) ==
    CASE c = "0" -> 0 [] c = "1" -> 1 [] c = "2" -> 2 [] c = "3" -> 3
      [] c = "4" -> 4 [] c = "5" -> 5 [] c = "6" -> 6 [] c = "7" -> 7
      [] c = "8" -> 8 [] c = "9" -> 9

Whitespace == {" "}

RECURSIVE LStrip(_)
LStrip(s) == IF s # <<>> /\ Head(s) \in Whitespace THEN LStrip(Tail(s)) ELSE s

RECURSIVE RStrip(_)
RStrip(s) ==
    IF s # <<>> /\ s[Len(s)] \in Whitespace
    THEN RStrip(SubSeq(s, 1, Len(s) - 1))
    ELSE s

\* str.strip()
Strip(s) == RStrip(LStrip(s))

\* str.split(sep) for a one-character separator: always at least one piece.
RECURSIVE Split(_, _)
Split(s, sep) ==
    IF \A i \in 1..Len(s) : s[i] # sep
    THEN <<s>>
    ELSE LET i == CHOOSE j \in 1..Len(s) :
                      s[j] = sep /\ \A k \in 1..(j - 1) : s[k] # sep
         IN  <<SubSeq(s, 1, i - 1)>> \o Split(SubSeq(s, i + 1, Len(s)), sep)

\* ------------------------------------------------------- int() and float()

\* A run of digits in which single underscores may stand between digits.
DigitPart(b) ==
    /\ b # <<>>
    /\ b[1] \in Digit
    /\ b[Len(b)] \in Digit
    /\ \A i \in 1..Len(b) : b[i] \in Digit \cup {"_"}
    /\ \A i \in 1..(Len(b) - 1) : ~(b[i] = "_" /\ b[i + 1] = "_")

Unsigned(t) == IF t # <<>> /\ t[1] \in {"+", "-"} THEN Tail(t) ELSE t

IsNegative(t) == t # <<>> /\ t[1] = "-"

\* int(val) does not raise ValueError: blanks around, a sign, digits.
IntParses(val) == DigitPart(Unsigned(Strip(val)))

Digits(b) == SelectSeq(b, LAMBDA c : c \in Digit)

RECURSIVE DigitsValue(_)
DigitsValue(ds) ==
    IF ds = <<>> THEN 0
    ELSE 10 * DigitsValue(SubSeq(ds, 1, Len(ds) - 1)) + DigitVal(ds[Len(ds)])

\* int(val), for a val that parses.
IntValue(val) ==
    LET t == Strip(val)
        n == DigitsValue(Digits(Unsigned(t)))
    IN  IF IsNegative(t) THEN 0 - n ELSE n

\* The mantissa of a float literal: digits, digits. , digits.digits , .digits
Mantissa(m) ==
    LET p == Split(m, ".")
    IN  \/ Len(p) = 1 /\ DigitPart(p[1])
        \/ /\ Len(p) = 2
           /\ p[1] = <<>> \/ DigitPart(p[1])
           /\ p[2] = <<>> \/ DigitPart(p[2])
           /\ p[1] # <<>> \/ p[2] # <<>>

Exponent(x) == DigitPart(Unsigned(x))

FloatWords == { <<"i", "n", "f">>, <<"n", "a", "n">>,
                <<"i", "n", "f", "i", "n", "i", "t", "y">> }

\* float(val) does not raise ValueError: blanks around, a sign, then inf,
\* infinity, nan, or a decimal literal with an optional exponent.
FloatParses(val) ==
    LET u == Unsigned(Strip(val))
        p == Split(u, "e")
    IN  \/ u \in FloatWords
        \/ Len(p) = 1 /\ Mantissa(p[1])
        \/ Len(p) = 2 /\ Mantissa(p[1]) /\ Exponent(p[2])

\* ------------------------------------------------------ datetime.strptime

\* A format token is a directive or a literal character.
IsDirective(tok) == tok \in {"%Y", "%m", "%d"}

\* The texts a directive's regular expression matches (_strptime.TimeRE):
\* %Y \d\d\d\d ; %m 1[0-2]|0[1-9]|[1-9] ; %d 3[01]|[12]\d|0[1-9]|[1-9]| [1-9]
DirectiveMatches(tok, t) ==
    CASE tok = "%Y" -> Len(t) = 4 /\ \A i \in 1..4 : t[i] \in Digit
      [] tok = "%m" ->
            \/ Len(t) = 2 /\ t[1] = "1" /\ t[2] \in {"0", "1", "2"}
            \/ Len(t) = 2 /\ t[1] = "0" /\ t[2] \in Digit \ {"0"}
            \/ Len(t) = 1 /\ t[1] \in Digit \ {"0"}
      [] tok = "%d" ->
            \/ Len(t) = 2 /\ t[1] = "3" /\ t[2] \in {"0", "1"}
            \/ Len(t) = 2 /\ t[1] \in {"1", "2"} /\ t[2] \in Digit
            \/ Len(t) = 2 /\ t[1] \in {"0", " "} /\ t[2] \in Digit \ {"0"}
            \/ Len(t) = 1 /\ t[1] \in Digit \ {"0"}

NoDate == [Y |-> 0, m |-> 0, d |-> 0]

\* The ways the whole of s matches the format: the set of the fields read.
\* A match that leaves text over is no match ("unconverted data remains").
RECURSIVE StrpMatch(_, _, _)
StrpMatch(s, fmt, acc) ==
    IF fmt = <<>> THEN (IF s = <<>> THEN {acc} ELSE {})
    ELSE IF IsDirective(Head(fmt))
    THEN UNION { IF k <= Len(s) /\ DirectiveMatches(Head(fmt), SubSeq(s, 1, k))
                 THEN StrpMatch(SubSeq(s, k + 1, Len(s)), Tail(fmt),
                        LET v == DigitsValue(Digits(SubSeq(s, 1, k)))
                        IN  CASE Head(fmt) = "%Y" -> [acc EXCEPT !.Y = v]
                              [] Head(fmt) = "%m" -> [acc EXCEPT !.m = v]
                              [] Head(fmt) = "%d" -> [acc EXCEPT !.d = v])
                 ELSE {}
               : k \in {1, 2, 4} }
    ELSE IF s # <<>> /\ Head(s) = Head(fmt)
         THEN StrpMatch(Tail(s), Tail(fmt), acc)
         ELSE {}

IsLeap(y) == y % 4 = 0 /\ (y % 100 # 0 \/ y % 400 = 0)

DaysInMonth(y, m) ==
    IF m = 2 THEN (IF IsLeap(y) THEN 29 ELSE 28)
    ELSE IF m \in {4, 6, 9, 11} THEN 30 ELSE 31

\* datetime.date(y, m, d) does not raise: MINYEAR is 1.
ValidDate(dt) ==
    /\ dt.Y >= 1
    /\ dt.m \in 1..12
    /\ dt.d >= 1 /\ dt.d <= DaysInMonth(dt.Y, dt.m)

\* datetime.strptime(val, fmt) does not raise ValueError.
StrptimeParses(val, fmt) == \E dt \in StrpMatch(val, fmt, NoDate) : ValidDate(dt)

\* date_formats of infer_column_type, in its order.
date_formats ==
    << <<"%Y", "-", "%m", "-", "%d">>,
       <<"%m", "/", "%d", "/", "%Y">>,
       <<"%d", "/", "%m", "/", "%Y">>,
       <<"%Y", "/", "%m", "/", "%d">> >>

\* Mutant of Prefix: the date test reads every value of the column.
PrefixWhole(values, n) == values

\* values[:n]
Prefix(values, n) == SubSeq(values, 1, IF Len(values) < n THEN Len(values) ELSE n)

\* ------------------------------------------------------- type inference

\* Mutant of infer_column_type: the float test is tried before the int test.
infer_column_type_float_first(values) ==
    IF \A i \in 1..Len(values) : FloatParses(values[i]) THEN "float"
    ELSE IF \A i \in 1..Len(values) : IntParses(values[i]) THEN "int"
    ELSE "string"

DateSample == 10

\* infer_column_type: int, then float, then the date formats on the first
\* DateSample values, then string.
infer_column_type(values) ==
    IF \A i \in 1..Len(values) : IntParses(values[i]) THEN "int"
    ELSE IF \A i \in 1..Len(values) : FloatParses(values[i]) THEN "float"
    ELSE IF \E f \in 1..Len(date_formats) :
               \A i \in 1..Len(Prefix(values, DateSample)) :
                   StrptimeParses(values[i], date_formats[f])
         THEN "date"
         ELSE "string"

\* ---------------------------------------------------------------- numbers
\* A Python number is nan, +/- infinity, or finite.  A finite number is kept
\* as the exact fraction n/d in lowest terms, d > 0 (the binary rounding of
\* float is not modelled); an int is a fraction with d = 1.

RECURSIVE GCD(_, _)
GCD(a, b) == IF b = 0 THEN a ELSE GCD(b, a % b)

Abs(n) == IF n < 0 THEN 0 - n ELSE n

Fin(n, d) ==
    LET g == GCD(Abs(n), d)
    IN  [k |-> "fin", n |-> n \div g, d |-> d \div g]

NaN == [k |-> "nan", n |-> 0, d |-> 1]
PosInf == [k |-> "inf", n |-> 0, d |-> 1]
NegInf == [k |-> "ninf", n |-> 0, d |-> 1]

\* a < b of Python: False whenever either side is nan.
Lt(a, b) ==
    CASE a.k = "nan" \/ b.k = "nan" -> FALSE
      [] a.k = "ninf" -> b.k # "ninf"
      [] a.k = "inf" -> FALSE
      [] b.k = "ninf" -> FALSE
      [] b.k = "inf" -> TRUE
      [] OTHER -> a.n * b.d < b.n * a.d

\* a + b of Python.
Add(a, b) ==
    CASE a.k = "nan" \/ b.k = "nan" -> NaN
      [] a.k = "fin" /\ b.k = "fin" -> Fin(a.n * b.d + b.n * a.d, a.d * b.d)
      [] a.k = "fin" -> b
      [] b.k = "fin" -> a
      [] a.k = b.k -> a
      [] OTHER -> NaN

\* a / c for a count c > 0.
DivBy(a, c) == IF a.k = "fin" THEN Fin(a.n, a.d * c) ELSE a

RECURSIVE Pow10(_)
Pow10(e) == IF e = 0 THEN 1 ELSE 10 * Pow10(e - 1)

\* Past this decimal order of magnitude a literal is beyond the largest
\* double (1.797e308) and float() returns infinity.
FloatMaxExp == 308

\* float(val), for a val that parses.
FloatValue(val) ==
    LET t == Strip(val)
        u == Unsigned(t)
        p == Split(u, "e")
        m == Split(p[1], ".")
        frac == IF Len(m) = 2 THEN Digits(m[2]) ELSE <<>>
        mant == DigitsValue(Digits(m[1]) \o frac)
        ex == IF Len(p) = 2
              THEN (IF IsNegative(p[2]) THEN 0 - DigitsValue(Digits(p[2]))
                    ELSE DigitsValue(Digits(p[2])))
              ELSE 0
        e10 == ex - Len(frac)
        sign == IF IsNegative(t) THEN 0 - 1 ELSE 1
    IN  IF u = <<"n", "a", "n">> THEN NaN
        ELSE IF u \in FloatWords THEN (IF IsNegative(t) THEN NegInf ELSE PosInf)
        ELSE IF mant = 0 THEN Fin(0, 1)
        ELSE IF e10 + Len(Digits(m[1]) \o frac) > FloatMaxExp + 1
             THEN (IF IsNegative(t) THEN NegInf ELSE PosInf)
        ELSE IF e10 >= 0 THEN Fin(sign * mant * Pow10(e10), 1)
        ELSE Fin(sign * mant, Pow10(0 - e10))

\* round(count / total_rows * 100, 2): to the nearest hundredth, a tie to
\* the even one.
Percentage(count, total_rows) ==
    LET q == (10000 * count) \div total_rows
        r == (10000 * count) % total_rows
        h == IF 2 * r > total_rows \/ (2 * r = total_rows /\ q % 2 = 1)
             THEN q + 1 ELSE q
    IN  Fin(h, 100)

\* ------------------------------------------------------- csv.DictReader

\* csv.reader on the lines of the text: a blank line is the empty record [],
\* any other line is its fields between the commas.
csv_reader(lines) ==
    [i \in 1..Len(lines) |->
        IF lines[i] = <<>> THEN <<>> ELSE Split(lines[i], ",")]

\* A value of a row dict: a str, or None (DictReader's restval).
StrVal(s) == [none |-> FALSE, s |-> s]
NoneVal == [none |-> TRUE, s |-> <<>>]

Min(a, b) == IF a < b THEN a ELSE b

Names(fieldnames) == {fieldnames[i] : i \in 1..Len(fieldnames)}

\* DictReader.__next__ for one record: dict(zip(fieldnames, row)), a later
\* field of the same name replacing an earlier one; the fields past the
\* header go as a list under restkey (None); the names past the record get
\* restval (None).
RowDict(fieldnames, row) ==
    LET lf == Len(fieldnames)
        lr == Len(row)
        n  == Min(lf, lr)
        Last(name) == CHOOSE i \in 1..n :
                          /\ fieldnames[i] = name
                          /\ \A j \in (i + 1)..n : fieldnames[j] # name
    IN  [vals |-> [name \in Names(fieldnames) |->
                     IF \E i \in (lr + 1)..lf : fieldnames[i] = name
                     THEN NoneVal
                     ELSE StrVal(row[Last(name)])],
         hasRest |-> lf < lr,
         rest |-> IF lf < lr THEN SubSeq(row, lf + 1, lr) ELSE <<>>]

\* Mutant of DictReader: blank records after the header are kept as rows.
DictReaderKeepsBlank(lines) ==
    LET recs == csv_reader(lines)
    IN  IF recs = <<>> THEN <<>>
        ELSE [i \in 1..(Len(recs) - 1) |-> RowDict(recs[1], recs[i + 1])]

\* list(csv.DictReader(io.StringIO(content))): the first record, blank or
\* not, is the header; blank records after it are skipped.
DictReader(lines) ==
    LET recs == csv_reader(lines)
        data == SelectSeq(Tail(recs), LAMBDA r : r # <<>>)
    IN  IF recs = <<>> THEN <<>>
        ELSE [i \in 1..Len(data) |-> RowDict(recs[1], data[i])]

RECURSIVE Dedup(_)
Dedup(s) ==
    IF s = <<>> THEN <<>>
    ELSE LET init == SubSeq(s, 1, Len(s) - 1)
         IN  IF s[Len(s)] \in Names(init) THEN Dedup(init)
             ELSE Dedup(init) \o <<s[Len(s)]>>

\* A key of a row dict: a column name, or None.
NameKey(name) == [none |-> FALSE, name |-> name]
NoneKey == [none |-> TRUE, name |-> <<>>]

\* Mutant of Keys: a repeated header name is listed once per occurrence.
KeysRepeated(fieldnames, row) ==
    [i \in 1..Len(fieldnames) |-> [none |-> FALSE, name |-> fieldnames[i]]]
        \o (IF row.hasRest THEN <<[none |-> TRUE, name |-> <<>>]>> ELSE <<>>)

\* list(row.keys()) in insertion order, given the header the row was read
\* under.
Keys(fieldnames, row) ==
    [i \in 1..Len(Dedup(fieldnames)) |-> NameKey(Dedup(fieldnames)[i])]
        \o (IF row.hasRest THEN <<NoneKey>> ELSE <<>>)

\* The header DictReader read: the first record of the text.
FieldNames(lines) == csv_reader(lines)[1]

\* ---------------------------------------------------------- infer_schema

NoError == ""
AttributeErrorNone == "'NoneType' object has no attribute 'strip'"
AttributeErrorList == "'list' object has no attribute 'strip'"
KeyErrorNone == "None"

\* What row[col].strip() raises, as str(e), or NoError.
StripError(row, col) ==
    IF col.none
    THEN (IF row.hasRest THEN AttributeErrorList ELSE KeyErrorNone)
    ELSE (IF row.vals[col.name].none THEN AttributeErrorNone ELSE NoError)

\* The first error of infer_schema's loops: columns outermost, rows inside.
RECURSIVE FirstError(_, _, _, _)
FirstError(rows, columns, c, r) ==
    IF c > Len(columns) THEN NoError
    ELSE IF r > Len(rows) THEN FirstError(rows, columns, c + 1, 1)
    ELSE IF StripError(rows[r], columns[c]) # NoError
         THEN StripError(rows[r], columns[c])
         ELSE FirstError(rows, columns, c, r + 1)

\* Mutant of NonEmptyValues: the type is inferred from the first row only.
NonEmptyValuesFirstRow(rows, name) ==
    LET col == [r \in 1..1 |-> rows[r].vals[name].s]
    IN  SelectSeq(col, LAMBDA v : Strip(v) # <<>>)

\* [row[col] for row in rows if row[col].strip()]
NonEmptyValues(rows, name) ==
    LET col == [r \in 1..Len(rows) |-> rows[r].vals[name].s]
    IN  SelectSeq(col, LAMBDA v : Strip(v) # <<>>)

\* Mutant of ColumnType: no special case for a column without values.
ColumnTypeUnguarded(values) == infer_column_type(values)

\* The type infer_schema gives one column.
ColumnType(values) ==
    IF values = <<>> THEN "string" ELSE infer_column_type(values)

\* infer_schema: the error it raises, or the schema.
infer_schema(rows, columns) ==
    LET err == FirstError(rows, columns, 1, 1)
        names == {columns[c].name : c \in 1..Len(columns)}
    IN  IF err # NoError THEN [err |-> err, schema |-> <<>>]
        ELSE [err |-> NoError,
              schema |-> [name \in names |->
                            ColumnType(NonEmptyValues(rows, name))]]

\* ---------------------------------------------------- compute_statistics

\* Mutant of Numeric: columns of every type are treated as numeric.
NumericEveryType == {"int", "float", "date", "string"}

Numeric == {"int", "float"}

\* Mutant of Parses: every numeric column is checked as an int column.
ParsesIntOnly(v, col_type) == IntParses(v)

\* int(v) or float(v) does not raise ValueError.
Parses(v, col_type) == IF col_type = "int" THEN IntParses(v) ELSE FloatParses(v)

NumberOf(v, col_type) ==
    IF col_type = "int" THEN Fin(IntValue(v), 1) ELSE FloatValue(v)

\* Mutant of NumericValues: the first row is left out.
NumericValuesSkipFirst(rows, name, col_type) ==
    LET col == [r \in 1..(Len(rows) - 1) |-> rows[r + 1].vals[name].s]
        good == SelectSeq(col, LAMBDA v : Parses(v, col_type))
    IN  [i \in 1..Len(good) |-> NumberOf(good[i], col_type)]

\* The column's values that convert, converted, in row order.
NumericValues(rows, name, col_type) ==
    LET col == [r \in 1..Len(rows) |-> rows[r].vals[name].s]
        good == SelectSeq(col, LAMBDA v : Parses(v, col_type))
    IN  [i \in 1..Len(good) |-> NumberOf(good[i], col_type)]

\* Mutant of PyMin: the first value is taken for the smallest.
PyMinFirst(values) == values[1]

\* min(values), max(values), sum(values) of Python, left to right.
RECURSIVE PyMin(_)
PyMin(values) ==
    IF Len(values) = 1 THEN values[1]
    ELSE LET m == PyMin(SubSeq(values, 1, Len(values) - 1))
         IN  IF Lt(values[Len(values)], m) THEN values[Len(values)] ELSE m

RECURSIVE PyMax(_)
PyMax(values) ==
    IF Len(values) = 1 THEN values[1]
    ELSE LET m == PyMax(SubSeq(values, 1, Len(values) - 1))
         IN  IF Lt(m, values[Len(values)]) THEN values[Len(values)] ELSE m

RECURSIVE PySum(_)
PySum(values) ==
    IF values = <<>> THEN Fin(0, 1)
    ELSE Add(PySum(SubSeq(values, 1, Len(values) - 1)), values[Len(values)])

compute_statistics(rows, schema) ==
    LET vals(name) == NumericValues(rows, name, schema[name])
        with == {name \in DOMAIN schema :
                    schema[name] \in Numeric /\ vals(name) # <<>>}
    IN  [name \in with |->
            [min |-> PyMin(vals(name)),
             max |-> PyMax(vals(name)),
             avg |-> DivBy(PySum(vals(name)), Len(vals(name))),
             count |-> Len(vals(name))]]

\* ------------------------------------------------- detect_quality_issues

Count(rows, P(_)) == Cardinality({r \in 1..Len(rows) : P(rows[r])})

\* row.get(col, '').strip()
Stripped(row, name) ==
    IF name \in DOMAIN row.vals THEN Strip(row.vals[name].s) ELSE <<>>

\* Mutant of detect_quality_issues: a missing value does not raise the flag.
DetectFlagsInvalidOnly(rows, schema) ==
    LET total_rows == Len(rows)
        missing(name) == Count(rows, LAMBDA row : Stripped(row, name) = <<>>)
        invalid(name) ==
            Count(rows, LAMBDA row :
                /\ Stripped(row, name) # <<>>
                /\ ~Parses(Stripped(row, name), schema[name]))
        miss == {name \in DOMAIN schema : missing(name) > 0}
        inv  == {name \in DOMAIN schema :
                    schema[name] \in Numeric /\ invalid(name) > 0}
    IN  [total_rows |-> total_rows,
         missing_values |-> [name \in miss |->
            [count |-> missing(name),
             percentage |-> Percentage(missing(name), total_rows)]],
         invalid_values |-> [name \in inv |->
            [count |-> invalid(name),
             percentage |-> Percentage(invalid(name), total_rows),
             expected_type |-> schema[name]]],
         has_issues |-> inv # {}]

detect_quality_issues(rows, schema) ==
    LET total_rows == Len(rows)
        missing(name) == Count(rows, LAMBDA row : Stripped(row, name) = <<>>)
        invalid(name) ==
            Count(rows, LAMBDA row :
                /\ Stripped(row, name) # <<>>
                /\ ~Parses(Stripped(row, name), schema[name]))
        miss == {name \in DOMAIN schema : missing(name) > 0}
        inv  == {name \in DOMAIN schema :
                    schema[name] \in Numeric /\ invalid(name) > 0}
    IN  [total_rows |-> total_rows,
         missing_values |-> [name \in miss |->
            [count |-> missing(name),
             percentage |-> Percentage(missing(name), total_rows)]],
         invalid_values |-> [name \in inv |->
            [count |-> invalid(name),
             percentage |-> Percentage(invalid(name), total_rows),
             expected_type |-> schema[name]]],
         has_issues |-> miss # {} \/ inv # {}]

\* ------------------------------------------------------ process_csv_file

EmptyError == "CSV file is empty or has no data rows"
DecodeError == "'utf-8' codec can't decode byte"

\* An object body: bytes that decode as UTF-8 to the lines, or do not.
Text(lines) == [valid |-> TRUE, lines |-> lines]
Undecodable == [valid |-> FALSE, lines |-> <<>>]

NoReport ==
    [row_count |-> 0, column_count |-> 0, schema |-> <<>>,
     statistics |-> <<>>, quality_issues |-> <<>>]

\* process_csv_file from the decoding of the body to the summary it is
\* about to upload: the error raised (str(e)) or the report.
Analyse(body) ==
    LET rows == DictReader(body.lines)
        columns == Keys(FieldNames(body.lines), rows[1])
        inferred == infer_schema(rows, columns)
        schema == inferred.schema
    IN  IF ~body.valid THEN [err |-> DecodeError, report |-> NoReport]
        ELSE IF rows = <<>> THEN [err |-> EmptyError, report |-> NoReport]
        ELSE IF inferred.err # NoError
             THEN [err |-> inferred.err, report |-> NoReport]
        ELSE [err |-> NoError,
              report |-> [row_count |-> Len(rows),
                          column_count |-> Len(columns),
                          schema |-> schema,
                          statistics |-> compute_statistics(rows, schema),
                          quality_issues |-> detect_quality_issues(rows, schema)]]

\* ------------------------------------------------------------ object keys
\* A key is its segments between the slashes; a segment is a sequence of
\* tokens, so that ".csv" can be found in a file name.

UploadsPrefix == <<"uploads">>
\* Mutant of ProcessedPrefix: summaries are written under uploads/.
ProcessedUnderUploads == <<"uploads">>

ProcessedPrefix == <<"processed">>

F1 == <<"f1", ".csv">>

KeyF1 == <<UploadsPrefix, F1>>
KeyNested == <<UploadsPrefix, <<"d">>, F1>>
KeyOther == <<<<"other">>, F1>>

\* Mutant of StartsWithUploads: any key with a folder passes.
StartsWithAnyPrefix(key) == Len(key) >= 2

\* key.startswith('uploads/')
StartsWithUploads(key) == Len(key) >= 2 /\ key[1] = UploadsPrefix

\* key.split('/')[-1]
FileNameOf(key) == key[Len(key)]

\* f"processed/{file_name.replace('.csv', '')}_summary.json"
SummaryKey(file_name) ==
    <<ProcessedPrefix,
      SelectSeq(file_name, LAMBDA tok : tok # ".csv") \o <<"_summary.json">>>>

\* ------------------------------------------------------------ the stores

VARIABLES
    s3,         \* the bucket: key -> object, for the keys that exist
    table,      \* the status table: file_name -> item, for the items stored
    events,     \* object-created notifications not yet delivered
    inv,        \* the invocations of lambda_handler: event -> its locals
    now,        \* the clock: eventTime and utcnow()
    uploaded,   \* number of client uploads so far
    wait        \* the client's wait for a status record: its locals

vars == <<s3, table, events, inv, now, uploaded, wait>>

\* No client is waiting.
NoWait == [fn |-> "", pc |-> "idle"]

CsvObject(body) == [kind |-> "csv", body |-> body, summary |-> <<>>]
SummaryObject(summary) == [kind |-> "summary", body |-> Undecodable, summary |-> summary]

\* dict.update of one entry
Put(store, k, v) == (k :> v) @@ store

\* ---------------------------------------------------------- lambda_handler

\* Mutant of ErrorResult: the row count is not reset.
ErrorResultCountsRows(msg) ==
    [row_count |-> 1, schema |-> <<>>, statistics |-> <<>>,
     quality_issues |-> [error |-> msg]]

\* The result and status the handler's except clause builds from str(e).
ErrorResult(msg) ==
    [row_count |-> 0, schema |-> <<>>, statistics |-> <<>>,
     quality_issues |-> [error |-> msg]]

\* The dict process_csv_file returns.
ReturnedResult(report) ==
    [row_count |-> report.row_count, schema |-> report.schema,
     statistics |-> report.statistics,
     quality_issues |-> report.quality_issues]

\* Mutant of StatusOf: the except clause forgets to set the status.
StatusAlwaysSuccess(err) == "success"

\* status after the try/except around process_csv_file, err being what it
\* raised (NoError when it returned).
StatusOf(err) == IF err = NoError THEN "success" ELSE "error"

NoResponse == [statusCode |-> 0, body |-> "", status |-> ""]
Skipped == [statusCode |-> 200, body |-> "Skipped", status |-> ""]
Processed(status) ==
    [statusCode |-> 200, body |-> "File processed successfully", status |-> status]

NewInvocation(e) ==
    [pc |-> IF StartsWithUploads(e.key) THEN "get" ELSE "done",
     key |-> e.key,
     file_name |-> IF StartsWithUploads(e.key) THEN FileNameOf(e.key) ELSE <<>>,
     upload_timestamp |-> e.eventTime,
     content |-> Undecodable,
     fetched |-> FALSE,
     report |-> NoReport,
     err |-> NoError,
     result |-> ErrorResult(NoError),
     status |-> "",
     puts |-> 0,
     wrote |-> <<>>,
     response |-> IF StartsWithUploads(e.key) THEN NoResponse ELSE Skipped]

\* The except clause of the handler: process_csv_file raised msg.
Caught(self, msg) ==
    [self EXCEPT !.pc = "write", !.err = msg,
                 !.result = ErrorResult(msg), !.status = StatusOf(msg)]

\* ------------------------------------------------ write_metadata_to_dynamodb

\* json.loads(json.dumps(x), parse_float=Decimal) leaves a finite number
\* with its value; NaN and Infinity come back as float, which the
\* DynamoDB serializer of put_item refuses with TypeError.
Serializable(statistics) ==
    \A name \in DOMAIN statistics :
        /\ statistics[name].min.k = "fin"
        /\ statistics[name].max.k = "fin"
        /\ statistics[name].avg.k = "fin"

\* Mutant of Item: error_message is set whether or not there is an error.
ItemAlwaysMessage(self, time) ==
    [file_name |-> self.file_name,
     upload_timestamp |-> self.upload_timestamp,
     processed_timestamp |-> time,
     status |-> self.status,
     row_count |-> self.result.row_count,
     schema |-> self.result.schema,
     statistics |-> self.result.statistics,
     quality_issues |-> self.result.quality_issues,
     error_message |-> self.err]

\* The item write_metadata_to_dynamodb puts: error_message only when truthy.
Item(self, time) ==
    LET item == [file_name |-> self.file_name,
                 upload_timestamp |-> self.upload_timestamp,
                 processed_timestamp |-> time,
                 status |-> self.status,
                 row_count |-> self.result.row_count,
                 schema |-> self.result.schema,
                 statistics |-> self.result.statistics,
                 quality_issues |-> self.result.quality_issues]
    IN  IF self.err # NoError
        THEN item @@ [error_message |-> self.err]
        ELSE item

\* Mutant of Summary: the upload timestamp is taken from the clock.
SummaryStampsUpload(self, time) ==
    [file_name |-> self.file_name,
     upload_timestamp |-> time,
     processed_timestamp |-> time,
     row_count |-> self.report.row_count,
     column_count |-> self.report.column_count,
     schema |-> self.report.schema,
     statistics |-> self.report.statistics,
     quality_issues |-> self.report.quality_issues]

\* The summary process_csv_file uploads.
Summary(self, time) ==
    [file_name |-> self.file_name,
     upload_timestamp |-> self.upload_timestamp,
     processed_timestamp |-> time,
     row_count |-> self.report.row_count,
     column_count |-> self.report.column_count,
     schema |-> self.report.schema,
     statistics |-> self.report.statistics,
     quality_issues |-> self.report.quality_issues]

\* Mutant of ReachesPut: process_csv_file never uploads the summary.
ReachesPutNever(err) == FALSE

\* process_csv_file reaches put_object only when nothing before it raised.
ReachesPut(err) == err = NoError

\* --------------------------------------------------------------- actions

Event(key, time) == [key |-> key, eventTime |-> time]

\* S3 delivers a notification: lambda_handler starts, and returns at once
\* for a key outside uploads/.
Start(e) ==
    /\ StartsWithUploads(e.key)
    /\ events' = events \ {e}
    /\ inv' = Put(inv, e, NewInvocation(e))
    /\ UNCHANGED <<s3, table, now, uploaded, wait>>

Skip(e) ==
    /\ ~StartsWithUploads(e.key)
    /\ events' = events \ {e}
    /\ inv' = Put(inv, e, NewInvocation(e))
    /\ UNCHANGED <<s3, table, now, uploaded, wait>>

\* Mutant of GetObject: the summary is uploaded before the analysis is
\* known to have succeeded.
GetObjectUploadsFirst(i) ==
    /\ inv[i].pc = "get"
    /\ inv[i].key \in DOMAIN s3
    /\ LET body == s3[inv[i].key].body
           out == Analyse(body)
           read == [inv[i] EXCEPT !.content = body, !.fetched = TRUE,
                                  !.puts = @ + 1]
       IN  /\ s3' = Put(s3, SummaryKey(inv[i].file_name),
                        SummaryObject(Summary(read, now)))
           /\ inv' = [inv EXCEPT ![i] =
                        IF out.err = NoError
                        THEN [read EXCEPT !.pc = "write", !.report = out.report,
                                !.result = ReturnedResult(out.report),
                                !.status = "success"]
                        ELSE Caught(read, out.err)]
    /\ UNCHANGED <<table, events, now, uploaded, wait>>

\* get_object, decode, and the analysis up to the summary.  (An object
\* that cannot be read ends like one that cannot be decoded.)
GetObject(i) ==
    /\ inv[i].pc = "get"
    /\ inv[i].key \in DOMAIN s3
    /\ LET body == s3[inv[i].key].body
           out == Analyse(body)
           read == [inv[i] EXCEPT !.content = body, !.fetched = TRUE]
       IN  inv' = [inv EXCEPT ![i] =
                     IF ReachesPut(out.err)
                     THEN [read EXCEPT !.pc = "put", !.report = out.report]
                     ELSE Caught(read, out.err)]
    /\ UNCHANGED <<s3, table, events, now, uploaded, wait>>

PutObjectError == "An error occurred when calling the PutObject operation"

\* put_object of the summary succeeds; process_csv_file returns.
PutObject(i) ==
    /\ inv[i].pc = "put"
    /\ s3' = Put(s3, SummaryKey(inv[i].file_name),
                 SummaryObject(Summary(inv[i], now)))
    /\ events' = events \cup {Event(SummaryKey(inv[i].file_name), now)}
    /\ inv' = [inv EXCEPT ![i].pc = "write",
                          ![i].puts = @ + 1,
                          ![i].result = ReturnedResult(inv[i].report),
                          ![i].status = StatusOf(NoError)]
    /\ UNCHANGED <<table, now, uploaded, wait>>

\* put_object raises: nothing is stored.
PutObjectFails(i) ==
    /\ inv[i].pc = "put"
    /\ inv' = [inv EXCEPT ![i] = Caught(inv[i], PutObjectError)]
    /\ UNCHANGED <<s3, table, events, now, uploaded, wait>>

\* put_item succeeds; the handler returns its 200 response.
PutItem(i) ==
    /\ inv[i].pc = "write"
    /\ Serializable(inv[i].result.statistics)
    /\ table' = Put(table, inv[i].file_name, Item(inv[i], now))
    /\ inv' = [inv EXCEPT ![i].pc = "done",
                          ![i].wrote = Append(@, Item(inv[i], now)),
                          ![i].response = Processed(inv[i].status)]
    /\ UNCHANGED <<s3, events, now, uploaded, wait>>

\* put_item raises TypeError for a float (NaN, Infinity) left in the item:
\* the handler re-raises.
PutItemTypeError(i) ==
    /\ inv[i].pc = "write"
    /\ ~Serializable(inv[i].result.statistics)
    /\ inv' = [inv EXCEPT ![i].pc = "raised"]
    /\ UNCHANGED <<s3, table, events, now, uploaded, wait>>

\* Mutant of PutItemFails: the summary is deleted before re-raising.
PutItemFailsRollsBack(i) ==
    /\ inv[i].pc = "write"
    /\ inv' = [inv EXCEPT ![i].pc = "raised"]
    /\ s3' = [k \in DOMAIN s3 \ {SummaryKey(inv[i].file_name)} |-> s3[k]]
    /\ UNCHANGED <<table, events, now, uploaded, wait>>

\* put_item raises an error of the table: the handler re-raises.
PutItemFails(i) ==
    /\ inv[i].pc = "write"
    /\ inv' = [inv EXCEPT ![i].pc = "raised"]
    /\ UNCHANGED <<s3, table, events, now, uploaded, wait>>

\* ---------------------------------------------------------------- inputs

MaxUploads == 2
MaxRows == 2
MaxRepeat == 10

Comma == ","

\* ",".join(fields)
RECURSIVE Render(_)
Render(fields) ==
    IF fields = <<>> THEN <<>>
    ELSE IF Len(fields) = 1 THEN fields[1]
    ELSE fields[1] \o <<Comma>> \o Render(Tail(fields))

SeqsUpTo(S, n) == UNION {[1..k -> S] : k \in 0..n}

A == <<"a">>
B == <<"b">>
One == <<"1">>
Word == <<"x">>
Blank == <<" ">>
IsoDate == <<"2", "0", "2", "3", "-", "0", "1", "-", "1", "5">>
UsDate == <<"0", "1", "/", "0", "2", "/", "2", "0", "2", "3">>
EuDate == <<"1", "5", "/", "0", "1", "/", "2", "0", "2", "3">>
YmdSlash == <<"2", "0", "2", "3", "/", "0", "1", "/", "1", "5">>
BadDate == <<"2", "0", "2", "3", "-", "0", "2", "-", "3", "0">>

\* Cell values of each kind the type tests tell apart.
Cells ==
    { <<>>, Blank, One, <<"-", "3">>, <<" ", "1", "2", " ">>, <<"1", "_", "0">>,
      <<"2", ".", "5">>, <<"1", "e", "3">>, <<"n", "a", "n">>, <<"i", "n", "f">>,
      Word, IsoDate, UsDate, EuDate, YmdSlash, BadDate }

BaseCells == {One, IsoDate, UsDate}

OptionalCell == {<<>>} \cup {<<c>> : c \in Cells}

\* Single-column files: a cell or none, a run of one cell, a cell or none.
ColumnBodies ==
    { Text(<<A>> \o lead \o [i \in 1..n |-> base] \o tail) :
        lead \in OptionalCell, base \in BaseCells,
        n \in 0..MaxRepeat, tail \in OptionalCell }

Headers == {<<>>, <<A>>, <<A, B>>, <<A, A>>}
Fields == {<<>>, One}

\* Records of no field up to one field more than the header has.
Records(header) == SeqsUpTo(Fields, Len(header) + 1)

\* Files of up to MaxRows records under each header, whatever their widths.
TableBodies ==
    UNION { { Text(<<Render(header)>> \o [i \in 1..Len(rows) |-> Render(rows[i])]) :
                rows \in SeqsUpTo(Records(header), MaxRows) } :
            header \in Headers }

\* The file of the "No Header" failure test: '1,2,3' then '4,5,6'.
NoHeaderBody ==
    Text(<<Render(<<<<"1">>, <<"2">>, <<"3">>>>),
           Render(<<<<"4">>, <<"5">>, <<"6">>>>)>>)

ProcessBodies ==
    ColumnBodies \cup TableBodies \cup {Text(<<>>), Undecodable, NoHeaderBody}

\* The files the clients of the pipeline upload: one without data rows, one
\* that is analysed, one whose statistics hold a NaN.
PipelineBodies ==
    { Text(<<>>),
      Text(<<Render(<<A, B>>), Render(<<One, Word>>)>>),
      Text(<<A, <<"n", "a", "n">>>>) }

\* The keys they upload to: two under uploads/ with the same file name, one
\* outside uploads/.
ClientKeys == {KeyF1, KeyNested, KeyOther}

\* A client puts an object; S3 queues the notification.
Upload(key, body) ==
    /\ uploaded < MaxUploads
    /\ uploaded' = uploaded + 1
    /\ now' = now + 1
    /\ s3' = Put(s3, key, CsvObject(body))
    /\ events' = events \cup {Event(key, now + 1)}
    /\ UNCHANGED <<table, inv, wait>>

\* --------------------------------------------------------- specifications

Init ==
    /\ s3 = <<>>
    /\ table = <<>>
    /\ events = {}
    /\ inv = <<>>
    /\ now = 0
    /\ uploaded = 0
    /\ wait = NoWait

Next ==
    \/ \E key \in ClientKeys, body \in PipelineBodies : Upload(key, body)
    \/ \E e \in events : Start(e)
    \/ \E e \in events : Skip(e)
    \/ \E i \in DOMAIN inv : GetObject(i)
    \/ \E i \in DOMAIN inv : PutObject(i)
    \/ \E i \in DOMAIN inv : PutObjectFails(i)
    \/ \E i \in DOMAIN inv : PutItem(i)
    \/ \E i \in DOMAIN inv : PutItemTypeError(i)
    \/ \E i \in DOMAIN inv : PutItemFails(i)

\* The pipeline: clients upload, invocations interleave, any call may fail.
Spec == Init /\ [][Next]_vars

\* One uploaded file of any content, processed where no service call fails.
InitProcess ==
    /\ \E body \in ProcessBodies : s3 = (KeyF1 :> CsvObject(body))
    /\ table = <<>>
    /\ events = {Event(KeyF1, 1)}
    /\ inv = <<>>
    /\ now = 1
    /\ uploaded = 1
    /\ wait = NoWait

NextProcess ==
    \/ \E e \in events : Start(e)
    \/ \E e \in events : Skip(e)
    \/ \E i \in DOMAIN inv : GetObject(i)
    \/ \E i \in DOMAIN inv : PutObject(i)
    \/ \E i \in DOMAIN inv : PutItem(i)
    \/ \E i \in DOMAIN inv : PutItemTypeError(i)

SpecProcess == InitProcess /\ [][NextProcess]_vars

\* ------------------------------------------------- the text, as a reader
\* sees it: the first line is the header, the lines after it are the data.

HeaderFields(body) ==
    IF body.lines = <<>> \/ body.lines[1] = <<>> THEN <<>>
    ELSE Split(body.lines[1], Comma)

HeaderNames(body) == {HeaderFields(body)[k] : k \in 1..Len(HeaderFields(body))}

\* The data lines that are not blank, and the fields of each.
DataLines(body) == SelectSeq(Tail(body.lines), LAMBDA l : l # <<>>)
DataFields(body) == [r \in 1..Len(DataLines(body)) |-> Split(DataLines(body)[r], Comma)]

\* The values of a column that are not empty after trimming, in line order:
\* the field under the last header position of that name.
NonEmptyCells(body, name) ==
    LET pos == CHOOSE k \in 1..Len(HeaderFields(body)) :
                   /\ HeaderFields(body)[k] = name
                   /\ \A j \in (k + 1)..Len(HeaderFields(body)) :
                          HeaderFields(body)[j] # name
        cells == [r \in 1..Len(DataFields(body)) |->
                     IF pos <= Len(DataFields(body)[r])
                     THEN DataFields(body)[r][pos] ELSE <<>>]
    IN  SelectSeq(cells, LAMBDA v : \E k \in 1..Len(v) : v[k] \notin Whitespace)

AllInt(vals) == \A k \in 1..Len(vals) : IntParses(vals[k])
AllFloat(vals) == \A k \in 1..Len(vals) : FloatParses(vals[k])

\* Some date format parses each of the first ten values.
DateInFirstTen(vals) ==
    \E f \in 1..Len(date_formats) :
        \A k \in 1..Len(vals) : k <= 10 => StrptimeParses(vals[k], date_formats[f])

\* ty is the first of int, float, date, string whose test vals passes.
FirstTypeInOrder(ty, vals) ==
    /\ ty \in {"int", "float", "date", "string"}
    /\ ty = "int" <=> AllInt(vals)
    /\ ty = "float" <=> ~AllInt(vals) /\ AllFloat(vals)
    /\ ty = "date" => DateInFirstTen(vals)
    /\ ~AllInt(vals) /\ ~AllFloat(vals) /\ ~DateInFirstTen(vals) => ty = "string"

\* The invocations that produced a report.
Reported == {i \in DOMAIN inv : inv[i].report # NoReport}

\* The invocations that read their object.
Fetched == {i \in DOMAIN inv : inv[i].fetched}

\* The invocations that returned or raised.
Ended == {i \in DOMAIN inv : inv[i].pc \in {"done", "raised"}}

\* ---------------------------------------------------------------- claims

C2_DateByFirstTen ==
    \A i \in Reported : \A name \in DOMAIN inv[i].report.schema :
        LET vals == NonEmptyCells(inv[i].content, name)
            first == SubSeq(vals, 1, Min(Len(vals), 10))
        IN  ~AllInt(vals) /\ ~AllFloat(vals) =>
                /\ inv[i].report.schema[name] \in {"date", "string"}
                /\ inv[i].report.schema[name] = "date" <=>
                       \E f \in 1..Len(date_formats) :
                           \A k \in 1..Len(first) :
                               StrptimeParses(first[k], date_formats[f])

\* A column typed date whose 11th non-empty value no format parses.
C2_Witness ==
    \E i \in Reported : \E name \in DOMAIN inv[i].report.schema :
        LET vals == NonEmptyCells(inv[i].content, name)
        IN  /\ inv[i].report.schema[name] = "date"
            /\ Len(vals) > 10
            /\ \A f \in 1..Len(date_formats) :
                   ~StrptimeParses(vals[11], date_formats[f])

\* C3: a column all of whose values are empty or blank is typed string and
\* has no statistics entry.
C3_EmptyColumnIsString ==
    \A i \in Reported : \A name \in DOMAIN inv[i].report.schema :
        NonEmptyCells(inv[i].content, name) = <<>> =>
            /\ inv[i].report.schema[name] = "string"
            /\ name \notin DOMAIN inv[i].report.statistics

\* A report with a column without a non-empty value, beside one with some.
C3_Witness ==
    \E i \in Reported : \E name, other \in DOMAIN inv[i].report.schema :
        /\ NonEmptyCells(inv[i].content, name) = <<>>
        /\ NonEmptyCells(inv[i].content, other) # <<>>
        /\ inv[i].report.row_count >= 2

\* C4 as stated: a report's schema has exactly one entry per field of the
\* header row, and column_count is the number of header fields.  A header
\* that repeats a name gets one entry for it: violated.
C4_EntryPerHeaderField ==
    \A i \in Reported :
        /\ DOMAIN inv[i].report.schema = HeaderNames(inv[i].content)
        /\ Cardinality(DOMAIN inv[i].report.schema) = Len(HeaderFields(inv[i].content))
        /\ inv[i].report.column_count = Len(HeaderFields(inv[i].content))

\* C4 amended: a report's schema has exactly one entry per distinct name of
\* the header row, and column_count is the number of distinct names.
C4_EntryPerHeaderName ==
    \A i \in Reported :
        /\ DOMAIN inv[i].report.schema = HeaderNames(inv[i].content)
        /\ inv[i].report.column_count = Cardinality(HeaderNames(inv[i].content))

\* A report on a file whose header has a name twice.
C4_Witness ==
    \E i \in Reported :
        /\ Len(HeaderFields(inv[i].content)) = 2
        /\ Cardinality(HeaderNames(inv[i].content)) = 1
        /\ inv[i].report.column_count = 1

\* The text has no data row: nothing, or nothing but blank lines, after
\* the first line.
NoDataRows(body) ==
    body.valid /\ \A k \in 2..Len(body.lines) : body.lines[k] = <<>>

\* C5: when the content has no data rows, processing fails with the
\* empty-input error: no report is produced, the handler holds the error
\* result, and no summary object is written.
C5_NoDataRowsIsEmptyError ==
    \A i \in Fetched :
        NoDataRows(inv[i].content) =>
            /\ inv[i].err = EmptyError
            /\ inv[i].report = NoReport
            /\ inv[i].result = ErrorResult(EmptyError)
            /\ inv[i].status = "error"
            /\ inv[i].puts = 0
            /\ SummaryKey(inv[i].file_name) \notin DOMAIN s3

\* A header line and a blank line, processed to the end.
C5_Witness ==
    \E i \in Fetched :
        /\ Len(inv[i].content.lines) = 2
        /\ inv[i].content.lines[1] # <<>>
        /\ inv[i].content.lines[2] = <<>>
        /\ inv[i].pc = "done"
        /\ Len(inv[i].wrote) = 1

\* Every data row has a field, and none has more fields than the header.
NoLongRow(body) ==
    /\ body.valid
    /\ Len(HeaderFields(body)) >= 1
    /\ DataLines(body) # <<>>
    /\ \A r \in 1..Len(DataFields(body)) :
           Len(DataFields(body)[r]) <= Len(HeaderFields(body))

SomeShortRow(body) ==
    \E r \in 1..Len(DataFields(body)) :
        Len(DataFields(body)[r]) < Len(HeaderFields(body))

\* C6: a data row with fewer fields than the header causes no error:
\* processing succeeds and produces a report.  The code raises
\* AttributeError on the None that DictReader puts for the absent field.
C6_ShortRowTolerated ==
    \A i \in Fetched :
        NoLongRow(inv[i].content) /\ SomeShortRow(inv[i].content) =>
            inv[i].err = NoError /\ i \in Reported

\* Every data row has at least the header's fields.
NoShortRow(body) ==
    /\ body.valid
    /\ Len(HeaderFields(body)) >= 1
    /\ DataLines(body) # <<>>
    /\ \A r \in 1..Len(DataFields(body)) :
           Len(DataFields(body)[r]) >= Len(HeaderFields(body))

SomeLongRow(body) ==
    \E r \in 1..Len(DataFields(body)) :
        Len(DataFields(body)[r]) > Len(HeaderFields(body))

\* C7: a data row with more fields than the header causes no error,
\* whichever row it is: processing succeeds and the schema holds only the
\* header's columns.  The code raises when the first data row is the long
\* one (its None key becomes a column).
C7_LongRowTolerated ==
    \A i \in Fetched :
        NoShortRow(inv[i].content) /\ SomeLongRow(inv[i].content) =>
            /\ inv[i].err = NoError
            /\ i \in Reported
            /\ DOMAIN inv[i].report.schema = HeaderNames(inv[i].content)

\* The status record of a failed processing.
IsErrorRecord(item, msg) ==
    /\ item.status = "error"
    /\ item.row_count = 0
    /\ item.schema = <<>>
    /\ item.statistics = <<>>
    /\ item.quality_issues = [error |-> msg]

\* C8 as stated: whenever processing raises, the handler writes the error
\* status record and returns 200 instead of raising.  When the write of
\* the record fails, the handler raises: violated.
C8_ErrorAlwaysRecorded ==
    \A i \in Ended :
        inv[i].err # NoError =>
            /\ inv[i].pc = "done"
            /\ inv[i].response.statusCode = 200
            /\ Len(inv[i].wrote) = 1
            /\ IsErrorRecord(inv[i].wrote[1], inv[i].err)

\* C8 amended: whenever processing raises, the handler catches the error
\* and passes status "error", row_count 0, empty schema and statistics and
\* quality_issues {"error": message} to the status write; when that write
\* succeeds the record is stored and the handler returns 200, and the
\* handler raises only when that write fails.
C8_ErrorRecordedUnlessWriteFails ==
    \A i \in DOMAIN inv :
        inv[i].err # NoError =>
            /\ inv[i].pc \in {"write", "done", "raised"}
            /\ IsErrorRecord(Item(inv[i], now), inv[i].err)
            /\ inv[i].pc = "done" =>
                   /\ inv[i].response.statusCode = 200
                   /\ Len(inv[i].wrote) = 1
                   /\ IsErrorRecord(inv[i].wrote[1], inv[i].err)
                   /\ inv[i].file_name \in DOMAIN table
            /\ inv[i].pc = "raised" => inv[i].wrote = <<>>

\* A processing that raised on the content, recorded, the handler returned.
C8_Witness ==
    \E i \in Ended :
        /\ inv[i].fetched
        /\ inv[i].err = EmptyError
        /\ inv[i].pc = "done"
        /\ inv[i].response.statusCode = 200
        /\ table[inv[i].file_name].status = "error"

\* Invocation i takes the step.
StepOf(i) == i \notin DOMAIN inv \/ inv'[i] # inv[i]

\* C9: an invocation whose processing fails has put no object, and none
\* of its steps changes the object store.
C9_FailedWritesNoSummary ==
    [][\A i \in DOMAIN inv' :
          inv'[i].status = "error" =>
              /\ inv'[i].puts = 0
              /\ StepOf(i) => s3' = s3]_vars

\* A failed invocation that ended with its status record written and no
\* summary object in the store.
C9_Witness ==
    \E i \in Ended :
        /\ inv[i].status = "error"
        /\ inv[i].fetched
        /\ Len(inv[i].wrote) = 1
        /\ SummaryKey(inv[i].file_name) \notin DOMAIN s3

\* C10: an invocation for a key under uploads/ whose status write succeeded
\* has written exactly one status record, of status "success" or "error",
\* and the status is "success" iff processing returned normally (with a
\* report, its summary uploaded); before that write it has written none.
C10_ExactlyOneOutcome ==
    \A i \in DOMAIN inv :
        StartsWithUploads(inv[i].key) =>
            /\ inv[i].pc = "done" =>
                   /\ Len(inv[i].wrote) = 1
                   /\ inv[i].wrote[1].status \in {"success", "error"}
                   /\ inv[i].wrote[1].status = "success" <=> inv[i].err = NoError
                   /\ inv[i].wrote[1].status = "success" =>
                          i \in Reported /\ inv[i].puts = 1
                   /\ inv[i].response.status = inv[i].wrote[1].status
            /\ inv[i].pc # "done" => inv[i].wrote = <<>>

\* Two invocations ended with their records written, one of each status.
C10_Witness ==
    \E i, j \in Ended :
        /\ Len(inv[i].wrote) = 1 /\ Len(inv[j].wrote) = 1
        /\ inv[i].wrote[1].status = "success"
        /\ inv[j].wrote[1].status = "error"

\* The status records written: by each invocation, and those in the table.
Written ==
    UNION {{inv[i].wrote[k] : k \in 1..Len(inv[i].wrote)} : i \in DOMAIN inv}
        \cup {table[f] : f \in DOMAIN table}

ColumnCells(body, name) ==
    LET pos == CHOOSE k \in 1..Len(HeaderFields(body)) :
                   /\ HeaderFields(body)[k] = name
                   /\ \A j \in (k + 1)..Len(HeaderFields(body)) :
                          HeaderFields(body)[j] # name
    IN  [r \in 1..Len(DataFields(body)) |->
            IF pos <= Len(DataFields(body)[r])
            THEN DataFields(body)[r][pos] ELSE <<>>]

\* The numbers a column of type ty holds: its values that parse as ty.
ParsedCells(body, name, ty) ==
    LET good == SelectSeq(ColumnCells(body, name), LAMBDA v : Parses(v, ty))
    IN  [k \in 1..Len(good) |-> NumberOf(good[k], ty)]

Range(s) == {s[k] : k \in 1..Len(s)}

\* a <= b of Python.
Le(a, b) == Lt(a, b) \/ (a = b /\ a.k # "nan")

\* The sum of the numbers, from the first on.
RECURSIVE Total(_)
Total(nums) ==
    IF nums = <<>> THEN Fin(0, 1) ELSE Add(Total(Tail(nums)), Head(nums))

C13_StatisticsOrdered ==
    \A i \in Reported :
        \A name \in DOMAIN inv[i].report.statistics :
            LET st == inv[i].report.statistics[name]
            IN  /\ st.count <= inv[i].report.quality_issues.total_rows
                /\ Le(st.min, st.avg)
                /\ Le(st.avg, st.max)

\* The invocations that read a text with a header and data rows.
ReadDataset ==
    {i \in Fetched : /\ inv[i].content.valid
                     /\ inv[i].content.lines # <<>>
                     /\ DataLines(inv[i].content) # <<>>}

\* A value that is empty or whitespace-only (an absent one reads as empty).
IsMissing(v) == \A k \in 1..Len(v) : v[k] \in Whitespace

\* How many of the values satisfy the test.
HowMany(cells, T(_)) == Cardinality({r \in 1..Len(cells) : T(cells[r])})

\* The missing_values and invalid_values an invocation's result carries:
\* those of its quality report, none when processing raised.
MissingValuesOf(i) ==
    IF i \in Reported THEN inv[i].report.quality_issues.missing_values ELSE <<>>
InvalidValuesOf(i) ==
    IF i \in Reported THEN inv[i].report.quality_issues.invalid_values ELSE <<>>

\* missing_values is right about the column: an entry iff some row's value
\* is missing, with the count of such rows and its percentage of all rows.
MissingEntryRight(i, name) ==
    LET cells == ColumnCells(inv[i].content, name)
        miss == HowMany(cells, IsMissing)
    IN  /\ name \in DOMAIN MissingValuesOf(i) <=> miss > 0
        /\ miss > 0 =>
               MissingValuesOf(i)[name] =
                   [count |-> miss, percentage |-> Percentage(miss, Len(cells))]

\* C14 as stated: for every column, missing_values has an entry iff some
\* row's value in the column is absent, empty or whitespace-only, with the
\* count of such rows and round(count / total_rows * 100, 2).  A row that
\* is too short to have the column makes processing raise, and there is no
\* entry: violated.
C14_MissingValuesCounted ==
    \A i \in ReadDataset :
        \A name \in HeaderNames(inv[i].content) : MissingEntryRight(i, name)

\* What holds: the same of every dataset that was analysed.
MissingValuesCountedInReports ==
    \A i \in ReadDataset \cap Reported :
        \A name \in HeaderNames(inv[i].content) : MissingEntryRight(i, name)

\* v parses as the type: int(v) or float(v) succeeds.
ParsesAs(v, ty) ==
    (ty = "int" /\ IntParses(v)) \/ (ty = "float" /\ FloatParses(v))

\* The columns of a report typed int or float.
NumericColumns(i) ==
    {name \in DOMAIN inv[i].report.schema : inv[i].report.schema[name] \in Numeric}

InvalidValuesEmptyInReports ==
    \A i \in Reported : InvalidValuesOf(i) = <<>>

\* C16: in every quality report, has_issues is true iff some column has an
\* entry in missing_values or in invalid_values; every entry has a nonzero
\* count, and there is one iff some value of the dataset is missing or,
\* in a numeric column, does not parse.
C16_HasIssuesIffEntry ==
    \A i \in Reported :
        LET q == inv[i].report.quality_issues
        IN  /\ q.has_issues <=>
                   DOMAIN q.missing_values # {} \/ DOMAIN q.invalid_values # {}
            /\ \A name \in DOMAIN q.missing_values : q.missing_values[name].count > 0
            /\ \A name \in DOMAIN q.invalid_values : q.invalid_values[name].count > 0
            /\ q.has_issues <=>
                   \E name \in DOMAIN inv[i].report.schema :
                       \E r \in 1..Len(ColumnCells(inv[i].content, name)) :
                           LET v == ColumnCells(inv[i].content, name)[r]
                               ty == inv[i].report.schema[name]
                           IN  \/ IsMissing(v)
                               \/ ty \in Numeric /\ ~ParsesAs(v, ty)

\* A report of two columns, one of them with a missing value: has_issues
\* is true and only that column has an entry.
C16_Witness ==
    \E i \in Reported :
        LET q == inv[i].report.quality_issues
        IN  /\ q.has_issues
            /\ inv[i].report.column_count = 2
            /\ Cardinality(DOMAIN q.missing_values) = 1

\* C17: a column typed date or string never has an entry in
\* invalid_values, whatever its values; so a date column whose 11th or
\* later value does not match the format accepted from the first 10 has
\* none.
C17_DateAndStringNeverInvalid ==
    \A i \in Reported :
        \A name \in DOMAIN inv[i].report.schema :
            inv[i].report.schema[name] \in {"date", "string"} =>
                name \notin DOMAIN InvalidValuesOf(i)

\* A date column of ten values in the first format and an 11th in another
\* format, analysed: invalid_values is empty and nothing is flagged.
C17_Witness ==
    \E i \in Reported :
        \E name \in DOMAIN inv[i].report.schema :
            LET cells == ColumnCells(inv[i].content, name)
            IN  /\ inv[i].report.schema[name] = "date"
                /\ Len(cells) = 11
                /\ \A r \in 1..10 : StrptimeParses(cells[r], date_formats[1])
                /\ ~StrptimeParses(cells[11], date_formats[1])
                /\ StrptimeParses(cells[11], date_formats[3])
                /\ InvalidValuesOf(i) = <<>>
                /\ ~inv[i].report.quality_issues.has_issues

\* The fields of a line as a reader of the text takes them: a line with
\* nothing on it has one field, the empty one.
FieldsOf(line) == IF line = <<>> THEN <<<<>>>> ELSE Split(line, Comma)

\* The data rows of the text: the lines after the header, up to the last
\* one with something on it (blank lines that end the text are no rows).
RowLines(body) ==
    LET used == {k \in 2..Len(body.lines) : body.lines[k] # <<>>}
        last == CHOOSE k \in used : \A j \in used : j <= k
    IN  IF used = {} THEN <<>> ELSE SubSeq(body.lines, 2, last)

\* A text whose every data row has exactly the header's fields.
Rectangular(body) ==
    /\ body.valid
    /\ Len(HeaderFields(body)) >= 1
    /\ RowLines(body) # <<>>
    /\ \A r \in 1..Len(RowLines(body)) :
           Len(FieldsOf(RowLines(body)[r])) = Len(HeaderFields(body))

\* A data row whose fields are all empty.
AllEmpty(line) == \A k \in 1..Len(FieldsOf(line)) : FieldsOf(line)[k] = <<>>

\* C18 as stated: a data row whose fields are all empty is a row of the
\* dataset: it counts in row_count, in total_rows and in the missing count
\* of every column, in a single-column file too; and a file whose values
\* are all empty is processed with every column typed string, no
\* statistics, every column missing in 100% of rows and has_issues true.
\* In a single-column file such a row is a blank line, which DictReader
\* skips: violated.
C18_EmptyRowIsRow ==
    \A i \in Fetched :
        Rectangular(inv[i].content) =>
            LET rows == RowLines(inv[i].content)
                empty == HowMany(rows, AllEmpty)
                rep == inv[i].report
            IN  /\ i \in Reported
                /\ rep.row_count = Len(rows)
                /\ rep.quality_issues.total_rows = Len(rows)
                /\ empty > 0 =>
                       \A name \in HeaderNames(inv[i].content) :
                           /\ name \in DOMAIN rep.quality_issues.missing_values
                           /\ rep.quality_issues.missing_values[name].count >= empty
                /\ empty = Len(rows) =>
                       /\ \A name \in DOMAIN rep.schema : rep.schema[name] = "string"
                       /\ rep.statistics = <<>>
                       /\ \A name \in HeaderNames(inv[i].content) :
                              rep.quality_issues.missing_values[name].percentage
                                  = Fin(100, 1)
                       /\ rep.quality_issues.has_issues

\* What holds: the same of the files with two or more columns, where a
\* row of empty fields is a line of commas.
EmptyRowIsRowInWideFiles ==
    \A i \in Fetched :
        Rectangular(inv[i].content) /\ Len(HeaderFields(inv[i].content)) >= 2 =>
            LET rows == RowLines(inv[i].content)
                empty == HowMany(rows, AllEmpty)
                rep == inv[i].report
            IN  /\ i \in Reported
                /\ rep.row_count = Len(rows)
                /\ rep.quality_issues.total_rows = Len(rows)
                /\ empty > 0 =>
                       \A name \in HeaderNames(inv[i].content) :
                           /\ name \in DOMAIN rep.quality_issues.missing_values
                           /\ rep.quality_issues.missing_values[name].count >= empty
                /\ empty = Len(rows) =>
                       /\ \A name \in DOMAIN rep.schema : rep.schema[name] = "string"
                       /\ rep.statistics = <<>>
                       /\ rep.quality_issues.has_issues

\* ------------------------------------------- a notification delivered again

\* Deliveries of one notification.
MaxDeliveries == 2

\* The handler is invoked again, later, with the event of an invocation
\* that has ended: the same key and the same eventTime.
Redeliver(e) ==
    /\ e \in DOMAIN inv
    /\ inv[e].pc \in {"done", "raised"}
    /\ StartsWithUploads(e.key)
    /\ now < MaxDeliveries
    /\ now' = now + 1
    /\ events' = events \cup {e}
    /\ UNCHANGED <<s3, table, inv, uploaded, wait>>

RerunBodies == TableBodies \cup PipelineBodies \cup {Undecodable}

\* One uploaded file, never replaced, whose notification is processed and
\* then processed again; no service call fails.
InitRerun ==
    /\ \E body \in RerunBodies : s3 = (KeyF1 :> CsvObject(body))
    /\ table = <<>>
    /\ events = {Event(KeyF1, 1)}
    /\ inv = <<>>
    /\ now = 1
    /\ uploaded = 1
    /\ wait = NoWait

NextRerun ==
    \/ \E e \in events : Start(e)
    \/ \E e \in events : Skip(e)
    \/ \E i \in DOMAIN inv : GetObject(i)
    \/ \E i \in DOMAIN inv : PutObject(i)
    \/ \E i \in DOMAIN inv : PutItem(i)
    \/ \E i \in DOMAIN inv : PutItemTypeError(i)
    \/ \E e \in DOMAIN inv : Redeliver(e)

SpecRerun == InitRerun /\ [][NextRerun]_vars

\* Two summaries, or two status records, equal in every field except
\* processed_timestamp.
SameButProcessed(a, b) ==
    [a EXCEPT !.processed_timestamp = 0] = [b EXCEPT !.processed_timestamp = 0]

F2 == <<"f2", ".csv">>
KeyF2 == <<UploadsPrefix, F2>>

\* Keys under uploads/: two of the same file name, one of another.
UploadKeys == {KeyF1, KeyNested, KeyF2}

\* Two objects uploaded under different keys, one after the other, both
\* notifications pending: the two invocations interleave freely.
InitTwoFiles ==
    /\ \E k1, k2 \in UploadKeys, b1, b2 \in PipelineBodies :
           /\ k1 # k2
           /\ s3 = (k1 :> CsvObject(b1)) @@ (k2 :> CsvObject(b2))
           /\ events = {Event(k1, 1), Event(k2, 2)}
    /\ table = <<>>
    /\ inv = <<>>
    /\ now = 2
    /\ uploaded = 2
    /\ wait = NoWait

NextTwoFiles ==
    \/ \E e \in events : Start(e)
    \/ \E e \in events : Skip(e)
    \/ \E i \in DOMAIN inv : GetObject(i)
    \/ \E i \in DOMAIN inv : PutObject(i)
    \/ \E i \in DOMAIN inv : PutItem(i)
    \/ \E i \in DOMAIN inv : PutItemTypeError(i)

SpecTwoFiles == InitTwoFiles /\ [][NextTwoFiles]_vars

\* Every notification was delivered and every invocation has ended.
AllEnded == events = {} /\ DOMAIN inv = Ended

\* The stores hold the outputs of invocation i: the status record it wrote
\* and, when it succeeded, the summary of the content it read.
OwnOutputsStored(i) ==
    /\ inv[i].file_name \in DOMAIN table
    /\ table[inv[i].file_name] = inv[i].wrote[1]
    /\ inv[i].status = "success" =>
           /\ SummaryKey(inv[i].file_name) \in DOMAIN s3
           /\ s3[SummaryKey(inv[i].file_name)] =
                  SummaryObject(Summary(inv[i], now))

\* C20 as stated: after the invocations for two different keys under
\* uploads/ have finished, in whatever order their steps ran, each file has
\* its own status record and its own summary object, describing its own
\* content.  Two keys with the same last segment share one record and one
\* summary: violated.
C20_EachFileOwnOutputs ==
    AllEnded =>
        \A i \in DOMAIN inv :
            StartsWithUploads(inv[i].key) /\ inv[i].pc = "done" =>
                OwnOutputsStored(i)

\* What holds: the same of a file whose name no other uploaded key ends in.
OwnOutputsWhenNamesDiffer ==
    AllEnded =>
        \A i \in DOMAIN inv :
            /\ StartsWithUploads(inv[i].key)
            /\ inv[i].pc = "done"
            /\ \A j \in DOMAIN inv :
                   inv[j].key # inv[i].key /\ StartsWithUploads(inv[j].key) =>
                       inv[j].file_name # inv[i].file_name
            => OwnOutputsStored(i)

\* A text without a header row: the fields of its first line are numbers,
\* that is data, and a second line of data follows.
NoHeaderRow(body) ==
    /\ body.valid
    /\ Len(body.lines) >= 2
    /\ body.lines[2] # <<>>
    /\ Len(HeaderFields(body)) >= 1
    /\ \A k \in 1..Len(HeaderFields(body)) :
           IntParses(HeaderFields(body)[k]) \/ FloatParses(HeaderFields(body)[k])

\* C21 as stated: a file whose first line is already data ('1,2,3' then
\* '4,5,6') is processed with status "error".  DictReader takes the first
\* line for the header whatever it holds, and the file is processed with
\* status "success": violated.
C21_NoHeaderIsError ==
    \A i \in Ended : NoHeaderRow(inv[i].content) => inv[i].status = "error"

\* C22 as stated: whenever the status record of a file name has status
\* "error", the object store holds no summary object for that file name,
\* re-uploads included.  A file processed successfully and then uploaded
\* again with content that fails keeps its earlier summary: violated.
C22_ErrorRecordNoSummary ==
    \A f \in DOMAIN table :
        table[f].status = "error" => SummaryKey(f) \notin DOMAIN s3

\* What holds: an error record written for a file name whose uploads all
\* failed has no summary beside it.
ErrorRecordNoSummaryUnlessEarlierSuccess ==
    \A f \in DOMAIN table :
        /\ table[f].status = "error"
        /\ \A i \in DOMAIN inv : inv[i].file_name = f => inv[i].puts = 0
        => SummaryKey(f) \notin DOMAIN s3

\* The summary object of a file name is in the store.
SummaryStored(f) ==
    SummaryKey(f) \in DOMAIN s3 /\ s3[SummaryKey(f)].kind = "summary"

\* C23: an invocation writes its summary object before its status record,
\* so in every reachable state where the status record of a file name has
\* status "success" the summary object of that name exists; and a summary
\* object once stored stays one, so a client that sees the record first
\* and reads the summary afterwards finds it.
C23_SummaryBeforeSuccessRecord ==
    /\ [](\A f \in DOMAIN table : table[f].status = "success" => SummaryStored(f))
    /\ [][/\ \A i \in DOMAIN inv :
                 /\ inv[i].pc = "write"
                 /\ inv[i].status = "success"
                 /\ table' # table
                 /\ inv'[i].pc = "done"
                 => inv[i].puts = 1 /\ SummaryStored(inv[i].file_name)
          /\ \A k \in DOMAIN s3 :
                 s3[k].kind = "summary" =>
                     k \in DOMAIN s3' /\ s3'[k].kind = "summary"]_vars

\* A success record is visible and the invocation that wrote it has ended:
\* the summary is there, written no later than the record.
C23_Witness ==
    \E i \in Ended :
        /\ inv[i].pc = "done"
        /\ inv[i].puts = 1
        /\ table[inv[i].file_name] = inv[i].wrote[1]
        /\ table[inv[i].file_name].status = "success"
        /\ SummaryStored(inv[i].file_name)
        /\ s3[SummaryKey(inv[i].file_name)].summary.upload_timestamp
               = inv[i].upload_timestamp

\* The first segment of the key is not uploads.
OutsideUploads(key) == Head(key) # <<"uploads">>

\* C24: an invocation for a key that does not start with 'uploads/'
\* returns 'Skipped' with statusCode 200 and changes nothing: it reads no
\* object, writes no summary and no status record, and its step leaves the
\* object store and the status table as they were.
C24_SkippedChangesNothing ==
    /\ [](\A i \in DOMAIN inv :
             OutsideUploads(inv[i].key) =>
                 /\ inv[i].response = [statusCode |-> 200, body |-> "Skipped",
                                       status |-> ""]
                 /\ inv[i].pc = "done"
                 /\ ~inv[i].fetched
                 /\ inv[i].puts = 0
                 /\ inv[i].wrote = <<>>)
    /\ [][\A i \in DOMAIN inv' :
              OutsideUploads(inv'[i].key) /\ StepOf(i) =>
                  s3' = s3 /\ table' = table]_vars

\* The notification of a client's object outside uploads/ was delivered
\* and skipped; the object is still there, unprocessed.
C24_Witness ==
    \E i \in DOMAIN inv :
        /\ inv[i].key = KeyOther
        /\ inv[i].response.body = "Skipped"
        /\ inv[i].response.statusCode = 200
        /\ s3[KeyOther].kind = "csv"
        /\ table = <<>>

\* ------------------------------------------------------- running to the end

\* The steps still ahead, at most: a pending notification for a key under
\* uploads/ is delivered, its object read, its summary put (which queues
\* one notification, to be skipped) and its record put; any other pending
\* notification is delivered and skipped.
StepsAhead ==
    6 * Cardinality({e \in events : Head(e.key) = <<"uploads">>})
      + Cardinality({e \in events : Head(e.key) # <<"uploads">>})
      + 5 * Cardinality({i \in DOMAIN inv : inv[i].pc = "get"})
      + 4 * Cardinality({i \in DOMAIN inv : inv[i].pc = "put"})
      + Cardinality({i \in DOMAIN inv : inv[i].pc = "write"})

\* C25: the pipeline never re-triggers itself: every summary object has a
\* key under processed/ and an invocation fired for such a key is skipped;
\* each upload leads to at most two invocations (its own and the skipped
\* one of its summary); every step other than a client's upload brings the
\* end nearer, no invocation is ever stuck, and once every notification is
\* delivered and every invocation has ended nothing writes to a store
\* until a client uploads again.
C25_NeverRetriggers ==
    /\ [](\A k \in DOMAIN s3 :
             s3[k].kind = "summary" => Head(k) = <<"processed">>)
    /\ [](\A i \in DOMAIN inv :
             Head(inv[i].key) = <<"processed">> =>
                 inv[i].response.body = "Skipped" /\ inv[i].puts = 0)
    /\ [](Cardinality(events \cup DOMAIN inv) <= 2 * uploaded)
    /\ [](\A i \in DOMAIN inv : inv[i].pc = "get" => inv[i].key \in DOMAIN s3)
    /\ [](AllEnded <=> StepsAhead = 0)
    /\ [][IF uploaded' = uploaded
          THEN StepsAhead' < StepsAhead
          ELSE StepsAhead' <= StepsAhead + 6]_vars
    /\ [][AllEnded /\ uploaded' = uploaded =>
              s3' = s3 /\ table' = table /\ events' = events]_vars

\* Two files were processed, both summaries written, and the two
\* invocations fired by the summaries were skipped: four invocations, all
\* ended, nothing pending.
C25_Witness ==
    /\ AllEnded
    /\ uploaded = 2
    /\ Cardinality(DOMAIN inv) = 4
    /\ Cardinality({i \in DOMAIN inv : inv[i].puts = 1}) = 2
    /\ Cardinality({i \in DOMAIN inv : /\ Head(inv[i].key) = <<"processed">>
                                       /\ inv[i].response.body = "Skipped"}) = 2

\* ------------------------------------------------- a file uploaded again

\* The contents a client replaces the file with: two that are analysed,
\* with different reports, and one without data rows.
ReuploadBodies ==
    { Text(<<Render(<<A, B>>), Render(<<One, Word>>)>>),
      Text(<<A, One, One>>),
      Text(<<>>) }

\* One file under uploads/, uploaded and then uploaded again under the
\* same key while the invocations of the earlier versions may still be
\* running; no service call fails.
InitReupload ==
    /\ \E body \in ReuploadBodies : s3 = (KeyF1 :> CsvObject(body))
    /\ table = <<>>
    /\ events = {Event(KeyF1, 1)}
    /\ inv = <<>>
    /\ now = 1
    /\ uploaded = 1
    /\ wait = NoWait

NextReupload ==
    \/ \E body \in ReuploadBodies : Upload(KeyF1, body)
    \/ \E e \in events : Start(e)
    \/ \E e \in events : Skip(e)
    \/ \E i \in DOMAIN inv : GetObject(i)
    \/ \E i \in DOMAIN inv : PutObject(i)
    \/ \E i \in DOMAIN inv : PutItem(i)

SpecReupload == InitReupload /\ [][NextReupload]_vars

\* The status record and the summary object of a file name describe the
\* same content.
RecordMatchesSummary(f) ==
    /\ SummaryStored(f)
    /\ table[f].row_count = s3[SummaryKey(f)].summary.row_count
    /\ table[f].schema = s3[SummaryKey(f)].summary.schema
    /\ table[f].statistics = s3[SummaryKey(f)].summary.statistics
    /\ table[f].quality_issues = s3[SummaryKey(f)].summary.quality_issues

\* C26 as stated: when invocations for the same file name ran concurrently
\* after a re-upload with different content, then once all have finished
\* the status record (of a successful processing) and the summary object
\* describe the same content.  The invocation of the earlier version can
\* put its record after the later one put its summary and record: violated.
C26_RecordAndSummaryAgree ==
    AllEnded =>
        \A f \in DOMAIN table :
            table[f].status = "success" => RecordMatchesSummary(f)

\* What holds: the same when the invocations of a file name run one after
\* the other, each starting after the one before it ended.
RecordAndSummaryAgreeInSequence ==
    /\ AllEnded
    /\ \A i, j \in DOMAIN inv :
           /\ StartsWithUploads(i.key) /\ StartsWithUploads(j.key)
           /\ i.eventTime < j.eventTime
           /\ Len(inv[i].wrote) = 1 /\ Len(inv[j].wrote) = 1
           => inv[i].wrote[1].processed_timestamp < j.eventTime
    => \A f \in DOMAIN table :
           table[f].status = "success" => RecordMatchesSummary(f)

\* --------------------------------------- schema and quality, same rows

\* C27: the schema is inferred from the rows the quality analysis checks,
\* so in every report invalid_values is empty: every non-empty value of a
\* column typed int or float parses as that type, and has_issues is true
\* iff some column has a missing value.
C27_InvalidValuesAlwaysEmpty ==
    \A i \in Reported :
        LET q == inv[i].report.quality_issues
            cells(name) == ColumnCells(inv[i].content, name)
        IN  /\ DOMAIN q.invalid_values = {}
            /\ \A name \in NumericColumns(i) :
                   \A r \in 1..Len(cells(name)) :
                       IsMissing(cells(name)[r])
                           \/ ParsesAs(cells(name)[r], inv[i].report.schema[name])
            /\ q.has_issues <=> DOMAIN q.missing_values # {}
            /\ q.has_issues <=>
                   \E name \in DOMAIN inv[i].report.schema :
                       \E r \in 1..Len(cells(name)) : IsMissing(cells(name)[r])

\* A column typed float that holds a value int() accepts, one only float()
\* accepts and a missing one: flagged for the missing value alone.
C27_Witness ==
    \E i \in Reported :
        \E name \in NumericColumns(i) :
            LET cells == ColumnCells(inv[i].content, name)
            IN  /\ inv[i].report.schema[name] = "float"
                /\ \E r \in 1..Len(cells) : IntParses(cells[r])
                /\ \E r \in 1..Len(cells) :
                       ~IsMissing(cells[r]) /\ ~IntParses(cells[r])
                /\ \E r \in 1..Len(cells) : IsMissing(cells[r])
                /\ inv[i].report.quality_issues.has_issues
                /\ inv[i].report.quality_issues.invalid_values = <<>>

\* A report without any missing value: nothing is flagged.
C27_WitnessClean ==
    \E i \in Reported :
        /\ NumericColumns(i) # {}
        /\ ~inv[i].report.quality_issues.has_issues

\* --------------------------------------- statistics and missing counts

\* The missing count a report gives a column: 0 without an entry.
MissingCount(i, name) ==
    IF name \in DOMAIN MissingValuesOf(i)
    THEN MissingValuesOf(i)[name].count ELSE 0

\* C28: in every report a column has a statistics entry iff its schema
\* type is int or float (a numeric column always has a value that
\* parses), and for each such column the statistics count plus the
\* column's missing count is total_rows.
C28_StatisticsIffNumeric ==
    \A i \in Reported :
        /\ DOMAIN inv[i].report.statistics = NumericColumns(i)
        /\ \A name \in NumericColumns(i) :
               /\ inv[i].report.statistics[name].count >= 1
               /\ inv[i].report.statistics[name].count + MissingCount(i, name)
                      = inv[i].report.quality_issues.total_rows
        /\ inv[i].report.quality_issues.total_rows = inv[i].report.row_count

\* A report of a numeric column with a missing value beside a column that
\* is not numeric: one statistics entry, count and missing count both
\* nonzero.
C28_Witness ==
    \E i \in Reported :
        \E name \in NumericColumns(i) :
            /\ DOMAIN inv[i].report.schema # NumericColumns(i)
            /\ MissingCount(i, name) >= 1
            /\ inv[i].report.statistics[name].count >= 1
            /\ inv[i].report.quality_issues.total_rows >= 2

\* ------------------------------------------- the status write fails

\* The invocations whose put_item raised.
Raised == {i \in DOMAIN inv : inv[i].pc = "raised"}

\* The table holds a record written for the invocation's event.
RecordOf(i) ==
    \E f \in DOMAIN table :
        /\ table[f].file_name = inv[i].file_name
        /\ table[f].upload_timestamp = i.eventTime

\* C29: when writing the status record fails, lambda_handler re-raises
\* instead of returning a 200 response, no status record exists for that
\* invocation, and the summary the invocation had written stays in the
\* bucket: the failing step changes neither the bucket nor the table.
C29_FailedWriteReraises ==
    /\ [](\A i \in Raised :
            /\ inv[i].response = NoResponse
            /\ inv[i].wrote = <<>>
            /\ ~RecordOf(i)
            /\ inv[i].puts = 1 => SummaryStored(inv[i].file_name))
    /\ [][\A i \in DOMAIN inv :
            inv[i].pc = "write" /\ inv'[i].pc = "raised" =>
                /\ s3' = s3 /\ table' = table
                /\ inv'[i].response = NoResponse]_vars

\* An analysed file whose summary was put and whose put_item then raised
\* an error of the table: the summary is there, no record is.
C29_Witness ==
    \E i \in Raised :
        /\ inv[i].puts = 1
        /\ inv[i].status = "success"
        /\ Serializable(inv[i].result.statistics)
        /\ SummaryStored(inv[i].file_name)
        /\ inv[i].file_name \notin DOMAIN table

\* ------------------------------------- the client waits for the record

MaxAttempts == 3

NoItem == <<>>
TimeoutError == "Timeout"
GetItemError == "An error occurred when calling the GetItem operation"

\* What one table.get_item did: returned an item, returned none, raised.
Found(item) == [kind |-> "item", item |-> item]
NotFound == [kind |-> "none", item |-> NoItem]
Raises == [kind |-> "raised", item |-> NoItem]

\* What the wait returns.  poll_dynamodb returns the item or None: ok says
\* which, and error stays empty.  _wait_for_processing returns (True, time,
\* item) or (False, time, {'error': text}).
ReturnItem(item) == [ok |-> TRUE, item |-> item, error |-> NoError]
ReturnNone == [ok |-> FALSE, item |-> NoItem, error |-> NoError]
ReturnError(text) == [ok |-> FALSE, item |-> NoItem, error |-> text]

\* The locals at the call: attempt counts from 0 as range() does, seen is
\* what the lookups made so far did.
NewWait(fn, file_name, n) ==
    [fn |-> fn, pc |-> "loop", file_name |-> file_name, max_attempts |-> n,
     attempt |-> 0, seen |-> <<>>, returned |-> ReturnNone]

Return(w, outcome, value) ==
    [w EXCEPT !.pc = "returned", !.seen = Append(@, outcome),
              !.returned = value]

\* time.sleep and the next iteration of the for loop, or the statement
\* after the loop when this was the last iteration.
Sleep(w, outcome, after) ==
    IF w.attempt + 1 < w.max_attempts
    THEN [w EXCEPT !.attempt = @ + 1, !.seen = Append(@, outcome)]
    ELSE Return(w, outcome, after)

\* One iteration of poll_dynamodb's loop.
poll_dynamodb(w, outcome) ==
    IF outcome.kind = "item" THEN Return(w, outcome, ReturnItem(outcome.item))
    ELSE Sleep(w, outcome, ReturnNone)

\* Mutant of wait_for_processing: any lookup that raises ends the wait.
wait_for_processing_aborts(w, outcome) ==
    IF outcome.kind = "item" THEN Return(w, outcome, ReturnItem(outcome.item))
    ELSE IF outcome.kind = "raised"
         THEN Return(w, outcome, ReturnError(GetItemError))
    ELSE Sleep(w, outcome, ReturnError(TimeoutError))

\* One iteration of _wait_for_processing's loop.
wait_for_processing(w, outcome) ==
    IF outcome.kind = "item" THEN Return(w, outcome, ReturnItem(outcome.item))
    ELSE IF outcome.kind = "raised" /\ w.attempt = w.max_attempts - 1
         THEN Return(w, outcome, ReturnError(GetItemError))
    ELSE Sleep(w, outcome, ReturnError(TimeoutError))

WaitFunctions == {"poll_dynamodb", "_wait_for_processing"}

Iteration(w, outcome) ==
    IF w.fn = "poll_dynamodb" THEN poll_dynamodb(w, outcome)
    ELSE wait_for_processing(w, outcome)

\* get_item returns the item stored under the file name.
LookupFinds ==
    /\ wait.pc = "loop"
    /\ wait.file_name \in DOMAIN table
    /\ wait' = Iteration(wait, Found(table[wait.file_name]))
    /\ UNCHANGED <<s3, table, events, inv, now, uploaded>>

\* get_item returns no item: none is stored under the file name.
LookupMisses ==
    /\ wait.pc = "loop"
    /\ wait.file_name \notin DOMAIN table
    /\ wait' = Iteration(wait, NotFound)
    /\ UNCHANGED <<s3, table, events, inv, now, uploaded>>

\* get_item raises.
LookupRaises ==
    /\ wait.pc = "loop"
    /\ wait' = Iteration(wait, Raises)
    /\ UNCHANGED <<s3, table, events, inv, now, uploaded>>

\* The client has uploaded one file and starts to wait for its record
\* while the pipeline processes it; the record may never come.
InitWait ==
    /\ \E body \in PipelineBodies : s3 = (KeyF1 :> CsvObject(body))
    /\ table = <<>>
    /\ events = {Event(KeyF1, 1)}
    /\ inv = <<>>
    /\ now = 1
    /\ uploaded = 1
    /\ \E fn \in WaitFunctions, n \in 1..MaxAttempts : wait = NewWait(fn, F1, n)

NextWait ==
    \/ \E e \in events : Start(e)
    \/ \E e \in events : Skip(e)
    \/ \E i \in DOMAIN inv : GetObject(i)
    \/ \E i \in DOMAIN inv : PutObject(i)
    \/ \E i \in DOMAIN inv : PutItem(i)
    \/ \E i \in DOMAIN inv : PutItemTypeError(i)
    \/ LookupFinds
    \/ LookupMisses
    \/ LookupRaises

SpecWait == InitWait /\ [][NextWait]_vars

Last(s) == s[Len(s)]

\* The wait has returned, after at most max_attempts lookups: with the item
\* of the first lookup that returned one, or with a failure when none of
\* its max_attempts lookups returned an item (a lookup that raised did not
\* end it early).
ReturnedRight ==
    LET items == {k \in 1..Len(wait.seen) : wait.seen[k].kind = "item"}
    IN  /\ Len(wait.seen) \in 1..wait.max_attempts
        /\ wait.returned.ok <=> items # {}
        /\ wait.returned.ok =>
               /\ items = {Len(wait.seen)}
               /\ wait.returned.item = Last(wait.seen).item
               /\ wait.returned.item \in Written
        /\ ~wait.returned.ok => Len(wait.seen) = wait.max_attempts

\* While it loops the wait has made fewer lookups than max_attempts, one
\* per attempt; each of its steps is a lookup that ends the wait or
\* begins the next attempt, and a lookup that raises before the last
\* attempt does not end it.
WaitAdvances ==
    /\ [](wait.pc = "loop" =>
            Len(wait.seen) = wait.attempt /\ wait.attempt < wait.max_attempts)
    /\ [][wait' # wait =>
            /\ wait.pc = "loop"
            /\ Len(wait'.seen) = Len(wait.seen) + 1
            /\ wait'.pc = "returned" \/ wait'.attempt = wait.attempt + 1
            /\ Last(wait'.seen).kind = "raised"
                   /\ wait.attempt < wait.max_attempts - 1
                   => wait'.pc = "loop"]_vars

\* C30 as stated: the wait ends after at most N lookups, reports success
\* with the item at the first lookup that returns one, reports failure,
\* as None or a 'Timeout' error, iff none of the N lookups returned an
\* item, and is not ended by a lookup that raises before the last attempt.
\* When the last lookup of _wait_for_processing raises, the failure it
\* reports carries that exception's text, not 'Timeout': violated.
C30_WaitFailsWithTimeout ==
    /\ [](wait.pc = "returned" =>
            /\ ReturnedRight
            /\ ~wait.returned.ok =>
                   wait.returned \in {ReturnNone, ReturnError(TimeoutError)})
    /\ WaitAdvances

\* C30 amended: the same, where the failure of poll_dynamodb is None and
\* the failure of _wait_for_processing is the text of the exception when
\* its last lookup raised, and 'Timeout' when it returned no item.
C30_WaitEndsWithinAttempts ==
    /\ [](wait.pc = "returned" =>
            /\ ReturnedRight
            /\ ~wait.returned.ok =>
                   wait.returned =
                       IF wait.fn = "poll_dynamodb" THEN ReturnNone
                       ELSE IF Last(wait.seen).kind = "raised"
                            THEN ReturnError(GetItemError)
                            ELSE ReturnError(TimeoutError))
    /\ WaitAdvances

\* A wait of three attempts whose first lookup raised, whose second found
\* nothing and whose third returned the record.
C30_Witness ==
    /\ wait.pc = "returned"
    /\ wait.fn = "_wait_for_processing"
    /\ wait.max_attempts = 3
    /\ wait.returned.ok
    /\ wait.seen[1].kind = "raised"
    /\ wait.seen[2].kind = "none"
    /\ wait.returned.item = table[F1]

\* A wait that gave up: the record never came.
C30_WitnessGaveUp ==
    /\ wait.pc = "returned"
    /\ wait.fn = "poll_dynamodb"
    /\ wait.returned = ReturnNone
    /\ Last(wait.seen).kind = "raised"
    /\ F1 \notin DOMAIN table

====
